---- MODULE Spec2Model ----
(***************************************************************************)
(* Model of xyextractor.py: class ImageBoxDrawer, a Tk canvas on which    *)
(* the user zooms and pans an image, drags boxes with the left button and *)
(* gets one line per labelled box on standard output.                     *)
(*                                                                         *)
(* Every bound Tk event handler is one action.  Numbers that are Python   *)
(* floats in the source (zoom_factor, the scroll fractions) are exact     *)
(* rationals <<numerator, denominator>> here; canvas coordinates are      *)
(* whole pixels.  Standard output is kept as its most recent line plus    *)
(* the number of box lines and of log lines written so far.               *)
(***************************************************************************)
EXTENDS Integers, Sequences, FiniteSets, TLC

\* ---------------------------------------------------------------- bounds
MaxZoomSteps == 2
MaxBoxes == 1
MaxLog == 5
MaxPans == 2
MaxEvents == 4

\* ------------------------------------------------- the image and the inputs
OrigWidth == 800
OrigHeight == 600

\* (event.width, event.height) of <Configure>
WindowSizes == {<<400, 300>>, <<1600, 300>>}
\* (event.x, event.y) of the left-button events; a drag may leave the window
PressPoints == {<<100, 100>>, <<-7, 155>>}
DragPoints == {<<200, 150>>}
ReleasePoints == {<<200, 150>>, <<-7, 155>>}
\* (event.x, event.y) of the right-button events
PanPressPoints == {<<100, 100>>}
PanDragPoints == {<<100, 100>>, <<60, 80>>, <<140, 120>>}
\* what simpledialog.askstring returns: None on Cancel, else the text typed
Cancelled == <<>>
Labels == {Cancelled, <<"">>, <<"cat">>}
\* <MouseWheel> carries a signed delta and num "??"; <Button-4>/<Button-5>
\* carry delta 0 and num 4 or 5
WheelEvents ==
    { [delta |-> 120, num |-> "??"], [delta |-> -120, num |-> "??"],
      [delta |-> 0, num |-> "4"], [delta |-> 0, num |-> "5"] }
PanSensitivities == {1, 2}

\* ------------------------------------------------------------- optionals
None == <<>>
Some(v) == <<v>>
Val(o) == o[1]

\* ------------------------------------------------------------ arithmetic
Abs(a) == IF a < 0 THEN -a ELSE a

RECURSIVE GCD(_, _)
GCD(a, b) == IF b = 0 THEN a ELSE GCD(b, a % b)

\* the rational n/d in lowest terms, d > 0
Rat(n, d) ==
    LET s == IF d < 0 THEN -1 ELSE 1
        g == GCD(Abs(n), Abs(d))
    IN  <<(s * n) \div g, (s * d) \div g>>

RMul(p, q) == Rat(p[1] * q[1], p[2] * q[2])
RLess(p, q) == p[1] * q[2] < q[1] * p[2]

\* Python int(n/d) for d > 0: rounds toward zero
TruncDiv(n, d) == IF n >= 0 THEN n \div d ELSE -((-n) \div d)

\* int(k * z) and int(c / z) for an integer k, a whole coordinate c, zoom z
IntTimes(k, z) == TruncDiv(k * z[1], z[2])
IntOver(c, z) ==
    IF z[1] > 0 THEN TruncDiv(c * z[2], z[1]) ELSE TruncDiv(-(c * z[2]), -z[1])

\* ------------------------------------------------------------------ state
VARIABLES
    debug,            \* self.debug (--debug)
    pan_sensitivity,  \* self.pan_sensitivity (--pan-sensitivity)
    zoom_factor,      \* self.zoom_factor
    image_resized,    \* size <<w, h>> of self.image_resized / self.tk_image
    scrollregion,     \* canvas scrollregion <<x1, y1, x2, y2>>
    rectItem,         \* coords of the canvas item self.rect names, if it exists
    win,              \* <<width, height>> of the window (and of the canvas)
    origin,           \* canvas coordinates of the window's top-left corner
    rect,             \* self.rect: "None" or "id" (of the newest rectangle)
    start_x, start_y, \* self.start_x, self.start_y
    pan_start_x, pan_start_y,        \* self.pan_start_x, self.pan_start_y
    canvas_start_x, canvas_start_y,  \* self.canvas_start_x, self.canvas_start_y
    lastLine,         \* the newest line on standard output
    boxLines,         \* number of box lines written so far
    logLines,         \* number of log lines written so far
    failed,           \* a handler has raised an exception
    pending,          \* the left button is down: its press (point, zoom)
    rightDown,        \* the right button is down
    pans,             \* history: number of right presses
    labelled,         \* history: releases answered with a non-empty label
    zoomHist,         \* history: zoom values since the last resize
    run,              \* 1: the run as started; 2: the rerun with --debug flipped
    script,           \* the events delivered to run 1, in order
    seen,             \* what run 1 showed at its start and after each event
    pos,              \* number of events of script delivered to run 2
    echo              \* the box line the newest event wrote, if it wrote one

vars ==
    <<debug, pan_sensitivity, zoom_factor, image_resized, scrollregion,
      rectItem, win, origin, rect, start_x, start_y,
      pan_start_x, pan_start_y, canvas_start_x, canvas_start_y,
      lastLine, boxLines, logLines, failed, pending, rightDown, pans,
      labelled, zoomHist, run, script, seen, pos, echo>>

optVars == <<debug, pan_sensitivity>>
drawVars == <<rect, start_x, start_y>>
panVars == <<pan_start_x, pan_start_y, canvas_start_x, canvas_start_y>>
outVars == <<lastLine, boxLines, logLines>>
canvasVars == <<image_resized, scrollregion, rectItem>>
viewVars == <<zoom_factor, image_resized, scrollregion, win, origin, zoomHist>>
twinVars == <<run, script, seen, pos, echo>>

\* ------------------------------------------------------- standard output
LogLine(text) == [kind |-> "log", text |-> text]
BoxLine(text) == [kind |-> "box", text |-> text]

\* log(message) once per element of texts: written only when self.debug
Log(texts) == IF debug THEN [i \in 1..Len(texts) |-> LogLine(texts[i])] ELSE <<>>

CountKind(lines, k) == Cardinality({i \in 1..Len(lines) : lines[i].kind = k})

\* the lines a handler writes, in order
Write(lines) ==
    /\ boxLines + CountKind(lines, "box") <= MaxBoxes
    /\ logLines + CountKind(lines, "log") <= MaxLog
    /\ lastLine' = IF lines = <<>> THEN lastLine ELSE Some(lines[Len(lines)])
    /\ boxLines' = boxLines + CountKind(lines, "box")
    /\ logLines' = logLines + CountKind(lines, "log")

\* ------------------------------------------------------------ the canvas
\* Tk CanvasSetOrigin with -confine true, one axis: o is the origin, extent
\* the scroll region's length from 0, size the window's length
Confine(o, extent, size) ==
    LET left == o
        right == extent - (o + size)
    IN  IF left < 0 /\ right > 0
        THEN o + (IF right > -left THEN -left ELSE right)
        ELSE IF right < 0 /\ left > 0
        THEN o - (IF left > -right THEN -right ELSE left)
        ELSE o

CanvasSetOrigin(org, region, w) ==
    <<Confine(org[1], region[3], w[1]), Confine(org[2], region[4], w[2])>>

\* as LoadImage, but resampling the bitmap on display instead of the original
LoadImageFromDisplayed(zf, img, w, org) ==
    LET new_width == IntTimes(img[1], zf)
        new_height == IntTimes(img[2], zf)
        bbox == <<0, 0, new_width, new_height>>
    IN  [image_resized |-> <<new_width, new_height>>,
         rectItem |-> None,
         scrollregion |-> bbox,
         origin |-> CanvasSetOrigin(org, bbox, w)]

\* load_image: resample the original to the zoomed size, clear the canvas,
\* draw the image, set the scroll region to the bounding box of all items
LoadImage(zf, img, w, org) ==
    LET new_width == IntTimes(OrigWidth, zf)
        new_height == IntTimes(OrigHeight, zf)
        bbox == <<0, 0, new_width, new_height>>
    IN  [image_resized |-> <<new_width, new_height>>,
         rectItem |-> None,
         scrollregion |-> bbox,
         origin |-> CanvasSetOrigin(org, bbox, w)]

\* Image.resize raises ValueError (height and width must be > 0) for a size
\* with a side below one pixel: load_image ends at line 65
ResizeRaises(zf) == IntTimes(OrigWidth, zf) < 1 \/ IntTimes(OrigHeight, zf) < 1

\* self.zoom_factor = zf; self.load_image() in a window of size w.  When the
\* resize raises, the factor is already assigned and the canvas stays as it is
Render(zf, w) ==
    LET r == LoadImage(zf, image_resized, w, origin)
    IN  /\ zoom_factor' = zf
        /\ win' = w
        /\ IF ResizeRaises(zf)
           THEN /\ failed' = TRUE
                /\ UNCHANGED <<image_resized, rectItem, scrollregion, origin>>
           ELSE /\ image_resized' = r.image_resized
                /\ rectItem' = r.rectItem
                /\ scrollregion' = r.scrollregion
                /\ origin' = r.origin
                /\ UNCHANGED failed

\* the lines a caller of load_image logs after it: none when it raised
AfterLoad(zf, texts) == IF ResizeRaises(zf) THEN <<>> ELSE texts

\* ------------------------------------------------------------------ Init
\* a Tk window is 1x1 until it is mapped; mapping it delivers <Configure>,
\* and only a mapped window gets mouse and key events
Unmapped == <<1, 1>>
Mapped == win # Unmapped

\* what a run shows apart from its diagnostics: the zoom, draw and pan state,
\* the canvas, and the box lines written
Shown ==
    [zoom |-> <<zoom_factor, image_resized, scrollregion, win, origin>>,
     draw |-> <<rect, start_x, start_y, rectItem>>,
     pan |-> <<pan_start_x, pan_start_y, canvas_start_x, canvas_start_y>>,
     raised |-> failed,
     boxes |-> boxLines,
     line |-> echo]

Init ==
    /\ debug \in BOOLEAN
    /\ pan_sensitivity \in PanSensitivities
    /\ zoom_factor = <<1, 1>>
    /\ win = Unmapped
    /\ image_resized = <<OrigWidth, OrigHeight>>
    /\ scrollregion = <<0, 0, OrigWidth, OrigHeight>>
    /\ rectItem = None
    /\ origin = <<0, 0>>
    /\ rect = "None"
    /\ start_x = None
    /\ start_y = None
    /\ pan_start_x = None
    /\ pan_start_y = None
    /\ canvas_start_x = 0
    /\ canvas_start_y = 0
    /\ lastLine = IF debug THEN Some(LogLine("Loaded image")) ELSE None
    /\ boxLines = 0
    /\ logLines = IF debug THEN 1 ELSE 0
    /\ failed = FALSE
    /\ pending = None
    /\ rightDown = FALSE
    /\ pans = 0
    /\ labelled = 0
    /\ zoomHist = <<[op |-> "init", z |-> <<1, 1>>]>>
    /\ run = 1
    /\ script = <<>>
    /\ pos = 0
    /\ echo = None
    /\ seen = <<Shown>>

\* ------------------------------------------------------------- viewport
\* as FitZoom, but fitting the width only
FitZoomWidth(w) == Rat(w[1], OrigWidth)

\* min(window_width / orig_width, window_height / orig_height)
FitZoom(w) ==
    LET zw == Rat(w[1], OrigWidth)
        zh == Rat(w[2], OrigHeight)
    IN  IF RLess(zh, zw) THEN zh ELSE zw

on_resize(w) ==
    /\ Render(FitZoom(w), w)
    /\ Write(Log(<<"Resizing window">>
                 \o AfterLoad(FitZoom(w), <<"Loaded image">>)))
    /\ zoomHist' = <<[op |-> "resize", z |-> zoom_factor']>>
    /\ UNCHANGED <<optVars, drawVars, panVars, pending, rightDown, pans,
                   labelled>>

\* as ZoomInValue, but adding a tenth (zoom_factor += 0.1)
ZoomInAdd(z) == Rat(z[1] * 10 + z[2], z[2] * 10)

\* self.zoom_factor *= 1.1
ZoomInValue(z) == RMul(z, <<11, 10>>)

\* as ZoomOutValue, but taking a quarter off (zoom_factor -= 0.25)
ZoomOutSub(z) == Rat(z[1] * 4 - z[2], z[2] * 4)

\* self.zoom_factor *= 0.9
ZoomOutValue(z) == RMul(z, <<9, 10>>)

\* zoom_in / zoom_out, with the lines the caller logs after them
zoom_in(after) ==
    /\ Len(zoomHist) <= MaxZoomSteps
    /\ Render(ZoomInValue(zoom_factor), win)
    /\ Write(Log(AfterLoad(ZoomInValue(zoom_factor),
                           <<"Loaded image">> \o after)))
    /\ zoomHist' = Append(zoomHist, [op |-> "in", z |-> zoom_factor'])

zoom_out(after) ==
    /\ Len(zoomHist) <= MaxZoomSteps
    /\ Render(ZoomOutValue(zoom_factor), win)
    /\ Write(Log(AfterLoad(ZoomOutValue(zoom_factor),
                           <<"Loaded image", "Zooming">> \o after)))
    /\ zoomHist' = Append(zoomHist, [op |-> "out", z |-> zoom_factor'])

\* as WheelCalls, but with the button codes 4 and 5 taken the other way round
WheelCallsSwapped(e) ==
    IF e.delta > 0 \/ e.num = "5" THEN "zoom_in"
    ELSE IF e.delta < 0 \/ e.num = "4" THEN "zoom_out"
    ELSE "none"

\* which of zoom_in / zoom_out on_mouse_wheel calls for an event
WheelCalls(e) ==
    IF e.delta > 0 \/ e.num = "4" THEN "zoom_in"
    ELSE IF e.delta < 0 \/ e.num = "5" THEN "zoom_out"
    ELSE "none"

on_mouse_wheel(e) ==
    LET call == WheelCalls(e)
        after == <<"Zoom factor after mouse wheel">>
    IN  /\ IF call = "zoom_in" THEN zoom_in(after)
           ELSE IF call = "zoom_out" THEN zoom_out(after)
           ELSE /\ Write(Log(after))
                /\ UNCHANGED <<viewVars, rectItem, failed>>
        /\ UNCHANGED <<optVars, drawVars, panVars, pending, rightDown, pans,
                       labelled>>

on_zoom_in ==
    /\ zoom_in(<<>>)
    /\ UNCHANGED <<optVars, drawVars, panVars, pending, rightDown, pans,
                   labelled>>

on_zoom_out ==
    /\ zoom_out(<<>>)
    /\ UNCHANGED <<optVars, drawVars, panVars, pending, rightDown, pans,
                   labelled>>

\* ----------------------------------------------------------- box drawing
\* canvas.canvasx(event.x), canvas.canvasy(event.y)
canvasx(x) == x + origin[1]
canvasy(y) == y + origin[2]

\* as ToOrig, but rounding down (coord // zoom_factor)
ToOrigFloor(c, zf) == (c * zf[2]) \div zf[1]

\* int(coord / self.zoom_factor)
ToOrig(c, zf) == IntOver(c, zf)

\* as FormatBox, but with one space between the corners
FormatBoxSpace(name, x1, y1, x2, y2) ==
    name \o ": " \o ToString(x1) \o "," \o ToString(y1)
         \o " " \o ToString(x2) \o "," \o ToString(y2)

\* f"{box_name}: {start_x_orig},{start_y_orig},   {end_x_orig},{end_y_orig}"
FormatBox(name, x1, y1, x2, y2) ==
    name \o ": " \o ToString(x1) \o "," \o ToString(y1)
         \o ",   " \o ToString(x2) \o "," \o ToString(y2)

\* as Truthy, but testing only for None (if box_name is not None)
TruthyNotNone(lbl) == lbl # Cancelled

\* Python truth value of what askstring returned
Truthy(lbl) == lbl # Cancelled /\ Val(lbl) # ""

on_button_press(p) ==
    LET sx == canvasx(p[1])
        sy == canvasy(p[2])
    IN  /\ start_x' = Some(sx)
        /\ start_y' = Some(sy)
        /\ Write(Log(<<"Button press">>))
        /\ rect' = "id"
        /\ rectItem' = Some(<<sx, sy, sx, sy>>)
        /\ pending' = Some([x |-> sx, y |-> sy, z |-> zoom_factor])
        /\ UNCHANGED <<optVars, zoom_factor, image_resized, scrollregion, win,
                       origin, panVars, failed, rightDown, pans, labelled,
                       zoomHist>>

\* canvas.coords(self.rect, ...) moves the item self.rect names, if there is
\* one; with no such item Tk does nothing.  With self.rect None the outcome
\* depends on the tkinter at hand: up to Python 3.11 the Tcl call is cut at
\* the None and raises TclError (wrong # args), from 3.12 on the None is
\* dropped and the call names no item
on_mouse_drag(p) ==
    LET cur_x == canvasx(p[1])
        cur_y == canvasy(p[2])
    IN  \/ /\ rect = "None"
           /\ failed' = TRUE
           /\ UNCHANGED <<optVars, viewVars, rectItem, drawVars, panVars,
                          outVars, pending, rightDown, pans, labelled>>
        \/ /\ rectItem' = IF rect = "id" /\ rectItem # None
                           THEN Some(<<Val(start_x), Val(start_y), cur_x, cur_y>>)
                           ELSE rectItem
           /\ Write(Log(<<"Mouse drag">>))
           /\ UNCHANGED <<optVars, zoom_factor, image_resized, scrollregion,
                          win, origin, drawVars, panVars, failed, pending,
                          rightDown, pans, labelled, zoomHist>>

\* as BoxOutput, but writing the box line through log(), under --debug only
BoxOutputLogged(lbl, x1, y1, x2, y2) ==
    IF debug /\ Truthy(lbl)
    THEN <<BoxLine(FormatBox(Val(lbl), x1, y1, x2, y2))>>
    ELSE <<>>

\* the line on_button_release writes for the label the prompt returned
BoxOutput(lbl, x1, y1, x2, y2) ==
    IF Truthy(lbl) THEN <<BoxLine(FormatBox(Val(lbl), x1, y1, x2, y2))>> ELSE <<>>

on_button_release(p, lbl) ==
    IF start_x = None
    THEN \* int(None / zoom_factor) raises TypeError: the handler ends there
         /\ lbl = Cancelled
         /\ failed' = TRUE
         /\ pending' = None
         /\ UNCHANGED <<optVars, viewVars, rectItem, drawVars, panVars, outVars,
                        rightDown, pans, labelled>>
    ELSE LET end_x == canvasx(p[1])
             end_y == canvasy(p[2])
             start_x_orig == ToOrig(Val(start_x), zoom_factor)
             start_y_orig == ToOrig(Val(start_y), zoom_factor)
             end_x_orig == ToOrig(end_x, zoom_factor)
             end_y_orig == ToOrig(end_y, zoom_factor)
         IN  /\ Write(Log(<<"Button release">>)
                      \o BoxOutput(lbl, start_x_orig, start_y_orig,
                                   end_x_orig, end_y_orig))
             /\ rectItem' = IF rect = "id" THEN None ELSE rectItem
             /\ rect' = "None"
             /\ pending' = None
             /\ labelled' = IF Truthy(lbl) THEN labelled + 1 ELSE labelled
             /\ UNCHANGED <<optVars, viewVars, start_x, start_y, panVars,
                            failed, rightDown, pans>>

\* --------------------------------------------------------------- panning
\* as on_right_click_press, but keeping the press point in start_x, start_y,
\* the fields of the box-draw machine
RightPressIntoStart(p) ==
    /\ pans < MaxPans
    /\ pans' = pans + 1
    /\ start_x' = Some(p[1])
    /\ start_y' = Some(p[2])
    /\ canvas_start_x' = canvasx(0)
    /\ canvas_start_y' = canvasy(0)
    /\ Write(Log(<<"Right click press">>))
    /\ rightDown' = TRUE
    /\ UNCHANGED <<optVars, viewVars, rectItem, rect, pan_start_x, pan_start_y,
                   failed, pending, labelled>>

on_right_click_press(p) ==
    /\ pans < MaxPans
    /\ pans' = pans + 1
    /\ pan_start_x' = Some(p[1])
    /\ pan_start_y' = Some(p[2])
    /\ canvas_start_x' = canvasx(0)
    /\ canvas_start_y' = canvasy(0)
    /\ Write(Log(<<"Right click press">>))
    /\ rightDown' = TRUE
    /\ UNCHANGED <<optVars, viewVars, rectItem, drawVars, failed, pending,
                   labelled>>

\* new_x = (canvas_start + (pan_start - event) / zoom_factor) / orig, as run
\* with --pan-sensitivity sens
PanFraction(sens, canvas_start, pan_start, e, zf, orig) ==
    Rat(canvas_start * zf[1] + (pan_start - e) * zf[2], zf[1] * orig)

\* Tk xview/yview moveto, one axis: the origin for a fraction f of the
\* scroll region's length, (int)(f * extent + 0.5), then confined
MoveTo(f, extent, size) ==
    Confine(TruncDiv(2 * f[1] * extent + f[2], 2 * f[2]), extent, size)

on_right_click_drag(p) ==
    IF pan_start_x = None
    THEN \* None - event.x raises TypeError: the handler ends there
         /\ failed' = TRUE
         /\ UNCHANGED <<optVars, viewVars, rectItem, drawVars, panVars, outVars,
                        pending, rightDown, pans, labelled>>
    ELSE LET new_x == PanFraction(pan_sensitivity, canvas_start_x,
                                  Val(pan_start_x), p[1], zoom_factor, OrigWidth)
             new_y == PanFraction(pan_sensitivity, canvas_start_y,
                                  Val(pan_start_y), p[2], zoom_factor, OrigHeight)
         IN  /\ origin' = <<MoveTo(new_x, scrollregion[3], win[1]),
                            MoveTo(new_y, scrollregion[4], win[2])>>
             /\ Write(Log(<<"Right click drag">>))
             /\ UNCHANGED <<optVars, zoom_factor, canvasVars, win, zoomHist,
                            drawVars, panVars, failed, pending, rightDown, pans,
                            labelled>>

\* no handler is bound to <ButtonRelease-3>: letting go of the right button
\* changes nothing in the program
RightRelease ==
    /\ rightDown
    /\ rightDown' = FALSE
    /\ UNCHANGED <<optVars, viewVars, rectItem, drawVars, panVars, outVars,
                   failed, pending, pans, labelled, twinVars>>

\* ------------------------------------------------------------------ Next
\* the events Tk delivers: <B1-Motion> and <ButtonRelease-1> only while the
\* left button is down, <B3-Motion> only while the right button is down
Resize == (\E w \in WindowSizes : on_resize(w)) /\ UNCHANGED twinVars
Wheel ==
    Mapped /\ (\E e \in WheelEvents : on_mouse_wheel(e)) /\ UNCHANGED twinVars
KeyPlus == Mapped /\ on_zoom_in /\ UNCHANGED twinVars
KeyMinus == Mapped /\ on_zoom_out /\ UNCHANGED twinVars
LeftPress ==
    /\ Mapped
    /\ pending = None
    /\ \E p \in PressPoints : on_button_press(p)
    /\ UNCHANGED twinVars
LeftDrag ==
    pending # None /\ (\E p \in DragPoints : on_mouse_drag(p)) /\ UNCHANGED twinVars
LeftRelease ==
    /\ pending # None
    /\ \E p \in ReleasePoints, lbl \in Labels : on_button_release(p, lbl)
    /\ UNCHANGED twinVars
RightPress ==
    /\ Mapped
    /\ ~rightDown
    /\ \E p \in PanPressPoints : on_right_click_press(p)
    /\ UNCHANGED twinVars
RightDrag ==
    rightDown /\ (\E p \in PanDragPoints : on_right_click_drag(p)) /\ UNCHANGED twinVars

Next ==
    \/ Resize
    \/ Wheel
    \/ KeyPlus
    \/ KeyMinus
    \/ LeftPress
    \/ LeftDrag
    \/ LeftRelease
    \/ RightPress
    \/ RightDrag
    \/ RightRelease

Spec == Init /\ [][Next]_vars

\* the viewport and the box-draw machine, run with the default options
InitDraw == Init /\ pan_sensitivity = 1

NextDraw ==
    \/ Resize
    \/ Wheel
    \/ KeyPlus
    \/ KeyMinus
    \/ LeftPress
    \/ LeftDrag
    \/ LeftRelease

SpecDraw == InitDraw /\ [][NextDraw]_vars

\* the viewport and the pan machine
NextPan ==
    \/ Resize
    \/ Wheel
    \/ KeyPlus
    \/ KeyMinus
    \/ RightPress
    \/ RightDrag
    \/ RightRelease

SpecPan == Init /\ [][NextPan]_vars

\* <B1-Motion> and <ButtonRelease-1> reaching the canvas with no press of its
\* own pending: the press went to another window (the label prompt holds the
\* grab while it is open) or came before the window was mapped
StrayDrag ==
    /\ Mapped
    /\ pending = None
    /\ \E p \in DragPoints : on_mouse_drag(p)
    /\ UNCHANGED twinVars
StrayRelease ==
    /\ Mapped
    /\ pending = None
    /\ \E p \in ReleasePoints, lbl \in Labels : on_button_release(p, lbl)
    /\ UNCHANGED twinVars

\* the viewport and the box-draw machine with such events delivered
NextStray ==
    \/ Resize
    \/ Wheel
    \/ KeyPlus
    \/ KeyMinus
    \/ LeftPress
    \/ LeftDrag
    \/ LeftRelease
    \/ StrayDrag
    \/ StrayRelease

SpecStray == InitDraw /\ [][NextStray]_vars

\* both mouse buttons at work in a window that is resized: boxes drawn
\* before and during one pan, the right button held down from its press on
NextBoth ==
    \/ Resize
    \/ LeftPress
    \/ LeftDrag
    \/ LeftRelease
    \/ RightPress
    \/ RightDrag

SpecBoth == InitDraw /\ [][NextBoth]_vars

\* the viewport of a window that is also squeezed flat, its canvas a few
\* pixels high: at height 1 the bitmap is a single pixel and the next zoom-out
\* asks Image.resize for height 0, as the 55th zoom-out in a row does at
\* 400x300
FlatWindowSizes ==
    {<<400, 300>>, <<800, 600>>, <<400, 1>>, <<400, 2>>, <<400, 3>>, <<400, 4>>}
ResizeFlat == (\E w \in FlatWindowSizes : on_resize(w)) /\ UNCHANGED twinVars

NextFlat ==
    \/ ResizeFlat
    \/ Wheel
    \/ KeyPlus
    \/ KeyMinus

SpecFlat == InitDraw /\ [][NextFlat]_vars

\* ------------------------------------------------- the same events twice
\* the program run on a sequence of events, then started again with --debug
\* the other way round and given the same events: one event of either run
NoPoint == <<0, 0>>
WheelCode(e) ==
    <<e.delta, IF e.num = "4" THEN 4 ELSE IF e.num = "5" THEN 5 ELSE 0>>

Events ==
    [h : {"resize"}, p : WindowSizes, lbl : {Cancelled}]
    \cup [h : {"wheel"}, p : {WheelCode(e) : e \in WheelEvents}, lbl : {Cancelled}]
    \cup [h : {"plus", "minus"}, p : {NoPoint}, lbl : {Cancelled}]
    \cup [h : {"press"}, p : PressPoints, lbl : {Cancelled}]
    \cup [h : {"drag"}, p : DragPoints, lbl : {Cancelled}]
    \cup [h : {"release"}, p : ReleasePoints, lbl : Labels]
    \cup [h : {"rpress"}, p : PanPressPoints, lbl : {Cancelled}]
    \cup [h : {"rdrag"}, p : PanDragPoints, lbl : {Cancelled}]

\* the binding that fires for an event, when Tk can deliver it
Handle(ev) ==
    CASE ev.h = "resize" -> on_resize(ev.p)
      [] ev.h = "wheel" ->
            /\ Mapped
            /\ \E e \in WheelEvents : WheelCode(e) = ev.p /\ on_mouse_wheel(e)
      [] ev.h = "plus" -> Mapped /\ on_zoom_in
      [] ev.h = "minus" -> Mapped /\ on_zoom_out
      [] ev.h = "press" -> Mapped /\ pending = None /\ on_button_press(ev.p)
      [] ev.h = "drag" -> pending # None /\ on_mouse_drag(ev.p)
      [] ev.h = "release" -> pending # None /\ on_button_release(ev.p, ev.lbl)
      [] ev.h = "rpress" -> Mapped /\ ~rightDown /\ on_right_click_press(ev.p)
      [] ev.h = "rdrag" -> rightDown /\ on_right_click_drag(ev.p)

\* the box line the step wrote, if it wrote one
Emitted == IF boxLines' > boxLines THEN lastLine' ELSE None

\* run 1 takes an event
Record ==
    /\ run = 1
    /\ Len(script) < MaxEvents
    /\ \E ev \in Events :
         /\ Handle(ev)
         /\ script' = Append(script, ev)
    /\ echo' = Emitted
    /\ seen' = Append(seen, Shown')
    /\ UNCHANGED <<run, pos>>

\* the program is started again on the same image with --debug flipped
Restart ==
    /\ run = 1
    /\ script # <<>>
    /\ run' = 2
    /\ pos' = 0
    /\ echo' = None
    /\ debug' = ~debug
    /\ zoom_factor' = <<1, 1>>
    /\ win' = Unmapped
    /\ image_resized' = <<OrigWidth, OrigHeight>>
    /\ scrollregion' = <<0, 0, OrigWidth, OrigHeight>>
    /\ rectItem' = None
    /\ origin' = <<0, 0>>
    /\ rect' = "None"
    /\ start_x' = None
    /\ start_y' = None
    /\ pan_start_x' = None
    /\ pan_start_y' = None
    /\ canvas_start_x' = 0
    /\ canvas_start_y' = 0
    /\ lastLine' = IF debug' THEN Some(LogLine("Loaded image")) ELSE None
    /\ boxLines' = 0
    /\ logLines' = IF debug' THEN 1 ELSE 0
    /\ failed' = FALSE
    /\ pending' = None
    /\ rightDown' = FALSE
    /\ pans' = 0
    /\ labelled' = 0
    /\ zoomHist' = <<[op |-> "init", z |-> <<1, 1>>]>>
    /\ UNCHANGED <<pan_sensitivity, script, seen>>

\* run 2 takes the next event of the script
Replay ==
    /\ run = 2
    /\ pos < Len(script)
    /\ Handle(script[pos + 1])
    /\ pos' = pos + 1
    /\ echo' = Emitted
    /\ UNCHANGED <<run, script, seen>>

NextTwin ==
    \/ Record
    \/ Restart
    \/ Replay

SpecTwin == InitDraw /\ [][NextTwin]_vars

\* ================================================================ claims
\* the integer q with |q| <= |c / z| < |q| + 1 and the sign of c / z: the
\* quotient rounded toward zero, for a zoom z = z[1]/z[2] > 0
Truncated(c, z) ==
    CHOOSE q \in {(c * z[2]) \div z[1], (c * z[2]) \div z[1] + 1} :
        IF c >= 0
        THEN q * z[1] <= c * z[2] /\ c * z[2] < (q + 1) * z[1]
        ELSE (q - 1) * z[1] < c * z[2] /\ c * z[2] <= q * z[1]

\* a left release at window point p answered with lbl is the step taken
Released(p, lbl) == pending # None /\ on_button_release(p, lbl)

\* C1: a left release at canvas point (ex,ey), after a press at canvas point
\* (sx,sy), with zoom factor z and a non-empty label writes one box line whose
\* corners are (trunc(sx/z), trunc(sy/z)) and (trunc(ex/z), trunc(ey/z)),
\* trunc rounding toward zero; nothing is checked against the image's bounds
\* or a minimum size, so a zero-size box is written too
C1_EmittedCornersAreTruncatedQuotients ==
    [][\A p \in ReleasePoints, lbl \in Labels :
         (Released(p, lbl) /\ lbl # Cancelled /\ Val(lbl) # "") =>
             /\ boxLines' = boxLines + 1
             /\ lastLine' = Some(BoxLine(FormatBox(Val(lbl),
                    Truncated(Val(start_x), zoom_factor),
                    Truncated(Val(start_y), zoom_factor),
                    Truncated(p[1] + origin[1], zoom_factor),
                    Truncated(p[2] + origin[2], zoom_factor))))]_vars

\* a zero-size box pressed and released at (-7,155) under zoom 11/20:
\* -7/0.55 = -12.7.. and 155/0.55 = 281.8..
C1_Witness ==
    /\ zoom_factor = <<11, 20>>
    /\ pending = None
    /\ start_x = Some(-7)
    /\ lastLine = Some(BoxLine(FormatBox("cat", -12, 281, -12, 281)))

\* C2: a release answered with an empty or cancelled label writes no box
\* line and raises nothing; one answered with a non-empty label writes exactly
\* one box line, which starts with the label as typed; so the number of box
\* lines always equals the number of releases answered with a non-empty label
C2_OneLinePerNonEmptyLabel ==
    /\ [](boxLines = labelled)
    /\ [][\A p \in ReleasePoints, lbl \in Labels :
            Released(p, lbl) =>
                IF lbl = Cancelled \/ lbl = <<"">>
                THEN /\ boxLines' = boxLines
                     /\ labelled' = labelled
                     /\ failed' = failed
                     /\ ~debug => lastLine' = lastLine
                ELSE /\ boxLines' = boxLines + 1
                     /\ labelled' = labelled + 1
                     /\ lastLine'[1].kind = "box"
                     /\ \E x1, y1, x2, y2 \in {Truncated(c, zoom_factor) :
                            c \in {Val(start_x), Val(start_y),
                                   p[1] + origin[1], p[2] + origin[2]}} :
                            lastLine'[1].text =
                                Val(lbl) \o ": " \o ToString(x1) \o "," \o ToString(y1)
                                \o ",   " \o ToString(x2) \o "," \o ToString(y2)]_vars

\* one box was labelled and written, and a later box, pressed at (-7,155),
\* was released without a label and left no line
C2_Witness ==
    /\ boxLines = 1
    /\ labelled = 1
    /\ pending = None
    /\ start_x = Some(-7)
    /\ zoom_factor = <<1, 2>>
    /\ lastLine = Some(BoxLine(FormatBox("cat", 200, 200, 400, 300)))

\* C3 as claimed: a box line reads `label: x1,y1 x2,y2`, and with the 800x600
\* image in a 400x300 window a drag from (100,100) to (200,150) labelled "cat"
\* writes `cat: 200,200 400,300`
C3_Claimed ==
    [][(/\ zoom_factor = <<1, 2>>
        /\ start_x = Some(100)
        /\ start_y = Some(100)
        /\ Released(<<200, 150>>, <<"cat">>))
         => lastLine' = Some(BoxLine("cat: 200,200 400,300"))]_vars

\* C3 amended: a box line reads `label: x1,y1,   x2,y2` (a comma and three
\* spaces between the corners), and the drag of the scenario writes
\* `cat: 200,200,   400,300`
C3_BoxLineFormat ==
    /\ [][\A p \in ReleasePoints, lbl \in Labels \ {Cancelled, <<"">>} :
            Released(p, lbl) =>
                lastLine' = Some(BoxLine(
                    Val(lbl) \o ": "
                    \o ToString(Truncated(Val(start_x), zoom_factor)) \o ","
                    \o ToString(Truncated(Val(start_y), zoom_factor)) \o ",   "
                    \o ToString(Truncated(p[1] + origin[1], zoom_factor)) \o ","
                    \o ToString(Truncated(p[2] + origin[2], zoom_factor))))]_vars
    /\ [][(/\ zoom_factor = <<1, 2>>
           /\ start_x = Some(100)
           /\ start_y = Some(100)
           /\ Released(<<200, 150>>, <<"cat">>))
            => lastLine' = Some(BoxLine("cat: 200,200,   400,300"))]_vars

C3_Witness ==
    /\ win = <<400, 300>>
    /\ start_x = Some(100)
    /\ zoom_factor = <<1, 2>>
    /\ pending = None
    /\ lastLine = Some(BoxLine("cat: 200,200,   400,300"))

\* the rationals a and b are equal
REq(a, b) == a[1] * b[2] = b[1] * a[2]
\* a <= b, for positive denominators
RLeq(a, b) == a[1] * b[2] <= b[1] * a[2]

\* the size of the original scaled by z, each side rounded toward zero
Scaled(z) == <<Truncated(OrigWidth, <<z[2], z[1]>>),
               Truncated(OrigHeight, <<z[2], z[1]>>)>>

RSub(a, b) == <<a[1] * b[2] - b[1] * a[2], a[2] * b[2]>>
PanDeltaX(sens, e) ==
    RSub(PanFraction(sens, canvas_start_x, Val(pan_start_x), e[1], zoom_factor,
                     OrigWidth),
         <<canvas_start_x, scrollregion[3]>>)
PanDeltaY(sens, e) ==
    RSub(PanFraction(sens, canvas_start_y, Val(pan_start_y), e[2], zoom_factor,
                     OrigHeight),
         <<canvas_start_y, scrollregion[4]>>)

\* C5: for the same anchor, zoom factor and right-drag displacement, the
\* scroll-position delta with pan sensitivity 2s is half of the delta with
\* pan sensitivity s
C5_Claimed ==
    [][\A p \in PanDragPoints :
         (rightDown /\ on_right_click_drag(p)) =>
             /\ REq(<<2 * PanDeltaX(2 * pan_sensitivity, p)[1],
                      PanDeltaX(2 * pan_sensitivity, p)[2]>>,
                    PanDeltaX(pan_sensitivity, p))
             /\ REq(<<2 * PanDeltaY(2 * pan_sensitivity, p)[1],
                      PanDeltaY(2 * pan_sensitivity, p)[2]>>,
                    PanDeltaY(pan_sensitivity, p))]_vars

RECURSIVE Pow(_, _)
Pow(b, n) == IF n = 0 THEN 1 ELSE b * Pow(b, n - 1)

\* the zoom steps i+1 .. j of zoomHist are all op
RunOf(op, i, j) == \A k \in (i + 1)..j : zoomHist[k].op = op

\* C6: zoomIn multiplies the zoom factor by 1.1 and zoomOut by 0.9, without
\* clamping: after n consecutive zoomIn calls from zoom z0 the zoom factor is
\* z0 x 1.1^n, after n consecutive zoomOut calls z0 x 0.9^n
C6_ZoomStepsCompound ==
    /\ zoom_factor = zoomHist[Len(zoomHist)].z
    /\ \A i, j \in 1..Len(zoomHist) :
         i < j =>
            /\ RunOf("in", i, j) =>
                 zoomHist[j].z[1] * zoomHist[i].z[2] * Pow(10, j - i)
                     = zoomHist[i].z[1] * Pow(11, j - i) * zoomHist[j].z[2]
            /\ RunOf("out", i, j) =>
                 zoomHist[j].z[1] * zoomHist[i].z[2] * Pow(10, j - i)
                     = zoomHist[i].z[1] * Pow(9, j - i) * zoomHist[j].z[2]

\* two zoomIn calls in a row from the zoom 1/2 of a 400x300 window
C6_Witness ==
    /\ Len(zoomHist) = 3
    /\ zoomHist[1] = [op |-> "resize", z |-> <<1, 2>>]
    /\ zoomHist[2].op = "in"
    /\ zoomHist[3].op = "in"
    /\ zoom_factor = <<121, 200>>

\* exactly one zoom step was taken, a zoomIn / a zoomOut
OneZoomIn ==
    /\ zoomHist' = Append(zoomHist, [op |-> "in", z |-> zoom_factor'])
    /\ zoom_factor'[1] * zoom_factor[2] * 10 = zoom_factor[1] * 11 * zoom_factor'[2]
OneZoomOut ==
    /\ zoomHist' = Append(zoomHist, [op |-> "out", z |-> zoom_factor'])
    /\ zoom_factor'[1] * zoom_factor[2] * 10 = zoom_factor[1] * 9 * zoom_factor'[2]

\* C7: a wheel event with a positive delta or button code 4 performs one
\* zoomIn and no zoomOut, one with a negative delta or button code 5 one
\* zoomOut and no zoomIn; the '+' key performs one zoomIn, the '-' key one
\* zoomOut
C7_WheelAndKeysStepOnce ==
    [][/\ \A e \in WheelEvents :
            on_mouse_wheel(e) =>
                /\ (e.delta > 0 \/ e.num = "4") => OneZoomIn
                /\ (e.delta < 0 \/ e.num = "5") => OneZoomOut
       /\ on_zoom_in => OneZoomIn
       /\ on_zoom_out => OneZoomOut]_vars

\* a wheel event (its log line is the newest) has just zoomed in
C7_Witness ==
    /\ debug
    /\ lastLine = Some(LogLine("Zoom factor after mouse wheel"))
    /\ zoomHist[Len(zoomHist)].op = "in"

\* C8: load_image called twice in a row with the same zoom factor leaves the
\* bitmap's size, the canvas items, the scroll region and the view where one
\* call leaves them (it touches neither the zoom factor nor the draw and pan
\* fields)
C8_LoadImageIdempotent ==
    LET once == LoadImage(zoom_factor, image_resized, win, origin)
        twice == LoadImage(zoom_factor, once.image_resized, win, once.origin)
    IN  twice = once

\* a zoom step re-rendered a view that had been panned away from (0,0)
C8_Witness ==
    /\ Len(zoomHist) = 3
    /\ pans > 0
    /\ origin # <<0, 0>>
    /\ image_resized # <<OrigWidth, OrigHeight>>

\* C9: the red rectangle is on the canvas exactly while a left press awaits
\* its release; it is created with zero size, a drag moves its far corner
\* only, and after the release it is gone and self.rect is None
C9_Claimed ==
    /\ pending # None <=> rectItem # None
    /\ pending = None => rect = "None"
    /\ rectItem # None =>
         /\ rectItem[1][1] = Val(start_x)
         /\ rectItem[1][2] = Val(start_y)

\* C10: the start corner written is trunc(press coordinate / zoom at the
\* press), the end corner trunc(release coordinate / zoom at the release),
\* also when the zoom factor changes between press and release
C10_Claimed ==
    [][\A p \in ReleasePoints, lbl \in Labels \ {Cancelled, <<"">>} :
         Released(p, lbl) =>
             lastLine' = Some(BoxLine(FormatBox(Val(lbl),
                 Truncated(pending[1].x, pending[1].z),
                 Truncated(pending[1].y, pending[1].z),
                 Truncated(p[1] + origin[1], zoom_factor),
                 Truncated(p[2] + origin[2], zoom_factor))))]_vars

\* C11: a left drag or a left release handled while no press is pending
\* (before any press or after the previous release) raises nothing and writes
\* no box line, so every box line belongs to a press of its own
C11_Claimed ==
    [][/\ \A p \in DragPoints :
            (pending = None /\ on_mouse_drag(p)) =>
                failed' = failed /\ boxLines' = boxLines
       /\ \A p \in ReleasePoints, lbl \in Labels :
            (pending = None /\ on_button_release(p, lbl)) =>
                failed' = failed /\ boxLines' = boxLines]_vars


\* the scroll fraction the pan is described to ask for on one axis: the
\* anchor's scroll origin plus the displacement since the press, both over
\* the content size orig * zoom_factor
ContentFraction(canvas_start, pan_start, e, zf, orig) ==
    Rat((canvas_start + pan_start - e) * zf[2], orig * zf[1])

\* C12: a right drag sets the scroll position to the anchor's scroll origin
\* plus the displacement since the press, both as fractions of the content
\* size (orig_width * zoom, orig_height * zoom); so a right drag with zero
\* displacement leaves the view where it was at the right press
C12_Claimed ==
    [][\A p \in PanDragPoints :
         (rightDown /\ on_right_click_drag(p)) =>
             /\ origin' =
                  <<MoveTo(ContentFraction(canvas_start_x, Val(pan_start_x),
                                           p[1], zoom_factor, OrigWidth),
                           scrollregion[3], win[1]),
                    MoveTo(ContentFraction(canvas_start_y, Val(pan_start_y),
                                           p[2], zoom_factor, OrigHeight),
                           scrollregion[4], win[2])>>
             /\ p = <<Val(pan_start_x), Val(pan_start_y)>> =>
                  origin' = <<canvas_start_x, canvas_start_y>>]_vars


\* the newest line of stdout is the same line or a diagnostic line
NoBoxLineWritten ==
    /\ boxLines' = boxLines
    /\ lastLine' # lastLine => Val(lastLine').kind = "log"

\* C13: the pan machine and the box-draw machine are independent.  A right
\* press and a right drag leave the zoom factor, the pending box (start_x,
\* start_y, rect) and the box lines as they are, the press changing only the
\* pan anchor and the drag only the scroll position; a left press, drag and
\* release leave the pan anchor, the scroll position and the zoom factor as
\* they are
C13_PanAndDrawIndependent ==
    [][/\ \A p \in PanPressPoints :
            on_right_click_press(p) =>
                /\ UNCHANGED <<zoom_factor, drawVars, rectItem, origin>>
                /\ NoBoxLineWritten
       /\ \A p \in PanDragPoints :
            on_right_click_drag(p) =>
                /\ UNCHANGED <<zoom_factor, drawVars, rectItem, panVars>>
                /\ NoBoxLineWritten
       /\ \A p \in PressPoints :
            on_button_press(p) => UNCHANGED <<panVars, origin, zoom_factor>>
       /\ \A p \in DragPoints :
            on_mouse_drag(p) => UNCHANGED <<panVars, origin, zoom_factor>>
       /\ \A p \in ReleasePoints, lbl \in Labels :
            on_button_release(p, lbl) =>
                UNCHANGED <<panVars, origin, zoom_factor>>]_vars

\* a box is pending with its rectangle on the canvas while a pan, begun after
\* the left press, has moved the view away from its anchor
C13_Witness ==
    /\ pending # None
    /\ rect = "id"
    /\ rightDown
    /\ pan_start_x # None
    /\ origin # <<canvas_start_x, canvas_start_y>>
    /\ <<Val(start_x), Val(start_y)>> = <<pending[1].x, pending[1].y>>


\* C14: between handlers the bitmap on display has the size
\* (trunc(orig_width * zoom), trunc(orig_height * zoom)) for the current zoom
\* factor and the scroll region is that bitmap's bounding box, initially and
\* after any sequence of resize, wheel and key zoom events
C14_Claimed ==
    /\ image_resized = Scaled(zoom_factor)
    /\ scrollregion = <<0, 0, image_resized[1], image_resized[2]>>


\* C15: the zoom factor is strictly positive in every reachable state, after
\* any sequence of zoom_in, zoom_out and resize to a window of positive size,
\* so int(coord / zoom_factor) in on_button_release and the division by
\* zoom_factor in on_right_click_drag never divide by zero
C15_ZoomFactorPositive ==
    /\ zoom_factor[2] > 0
    /\ RLess(<<0, 1>>, zoom_factor)

\* a box pressed, released and written two zoom steps down from the fit of
\* the window
C15_Witness ==
    /\ Len(zoomHist) = 3
    /\ zoomHist[2].op = "out"
    /\ zoomHist[3].op = "out"
    /\ RLess(zoom_factor, FitZoom(win))
    /\ boxLines = 1
    /\ pending = None
    /\ lastLine # None
    /\ Val(lastLine).kind = "box"


\* C16: the debug flag changes the diagnostics only.  Run on the same events
\* with --debug the other way round, the program shows after every event the
\* zoom, draw and pan state and the box line of the first run; and without
\* --debug standard output holds box lines only
C16_DebugOnlyDiagnostics ==
    /\ run = 2 => Shown = seen[pos + 1]
    /\ ~debug => logLines = 0 /\ (lastLine # None => Val(lastLine).kind = "box")

\* the rerun under --debug has taken the whole script and written its box
\* line as the plain run did, after five lines of diagnostics
C16_Witness ==
    /\ run = 2
    /\ debug
    /\ pos = Len(script)
    /\ echo # None
    /\ seen[pos + 1].line = echo
    /\ boxLines = 1
    /\ logLines >= 5

====
